---- MODULE Spec2Model ----
(***************************************************************************)
(* Face-recognition login pipeline of naxrel/FR:                           *)
(*   dataset.py  create_dataset  - enrolls face samples of one identity    *)
(*   recog.py    train_model     - trains the LBPH model, writes artifacts *)
(*   login.py    FaceLoginApp    - live recognition session (Tk loop)      *)
(* The three scripts share the file system: the dataset directory, the     *)
(* model file (model.yml) and the mapping file (name_mapping.json).        *)
(* The operator runs one script at a time.                                 *)
(***************************************************************************)
EXTENDS Integers, Sequences, FiniteSets, TLC

(* ------------------------------ bounds --------------------------------- *)

\* dataset.py:8 sets IMAGES_TO_CAPTURE = 50; the model scales the target down.
IMAGES_TO_CAPTURE == 2

\* Most face regions the detector returns for one frame.
MaxFaces == 3

\* Most consecutive failed frame reads of one recognition session.
MaxFails == 2

(* --------------------------- program constants ------------------------- *)

CONF_THRESHOLD == 65

\* Dissimilarity scores predict may return: below, at and above the threshold.
Scores == {CONF_THRESHOLD - 1, CONF_THRESHOLD, CONF_THRESHOLD + 1}

\* Identity names the operator may type; "" is the empty input.
Names == {"alice", "bob"}

UserInputs == Names \cup {""}

\* A plain (non-directory) file an operator may have left in the dataset directory.
PlainEntry == "notes.txt"

EntryNames == Names \cup {PlainEntry}

(* ------------------------------ Sample Store --------------------------- *)

\* image_<n>.jpg as written by cv2.imwrite.
JpgImage(n) == [n |-> n, ext |-> "jpg", readable |-> TRUE]

\* A file whose extension train_model does not accept.
ReadmeTxt == [n |-> 0, ext |-> "txt", readable |-> TRUE]

\* A file with an accepted extension that cv2.imread cannot decode.
BrokenPng == [n |-> 0, ext |-> "png", readable |-> FALSE]

NoEntry == [kind |-> "none", files |-> {}]

PlainFile == [kind |-> "file", files |-> {}]

Directory(files) == [kind |-> "dir", files |-> files]

NoDataset == [exists |-> FALSE, entries |-> [e \in EntryNames |-> NoEntry]]

EmptyDataset == [exists |-> TRUE, entries |-> [e \in EntryNames |-> NoEntry]]

OnlyPlainFileDataset ==
  [exists |-> TRUE,
   entries |-> [e \in EntryNames |-> IF e = PlainEntry THEN PlainFile ELSE NoEntry]]

JunkPartitionDataset ==
  [exists |-> TRUE,
   entries |-> [e \in EntryNames |->
                  IF e = "alice" THEN Directory({ReadmeTxt, BrokenPng}) ELSE NoEntry]]

\* Sample Store contents the scripts may find when first run.
InitialDatasets ==
  {NoDataset, EmptyDataset, OnlyPlainFileDataset, JunkPartitionDataset}

\* The identity partitions (directories) of a dataset.
Partitions(ds) == {e \in EntryNames : ds.entries[e].kind = "dir"}

\* img_name.endswith(('.jpg', '.png', '.jpeg'))
EligibleExt(f) == f.ext \in {"jpg", "png", "jpeg"}

\* The files of a partition that train_model loads as samples.
ValidImages(files) == {f \in files : EligibleExt(f) /\ f.readable}

SampleCount(ds, name) == Cardinality(ValidImages(ds.entries[name].files))

(* ------------------------------ artifacts ------------------------------ *)

AbsentFile == [state |-> "absent", content |-> {}]

CorruptFile == [state |-> "corrupt", content |-> {}]

\* model.yml: the labels the trained recognizer can predict.
\* name_mapping.json: the set of <<name, id>> pairs of name_to_id.
WrittenFile(content) == [state |-> "ok", content |-> content]

VARIABLES
  dataset,        \* the dataset directory
  modelFile,      \* model.yml
  mappingFile,    \* name_mapping.json
  \* train_model
  tpc,            \* position of train_model
  listing,        \* what os.listdir(DATASET_PATH) returned
  name_to_id,     \* set of <<name, id>>
  faces,          \* sequence of [dir, n]: the images read
  ids,            \* sequence of labels, parallel to faces
  trainResult,    \* how the run ended
  preModel,       \* model.yml when the run started
  preMapping,     \* name_mapping.json when the run started
  wroteModel,     \* this run wrote model.yml
  wroteMapping,   \* this run wrote name_mapping.json
  \* create_dataset
  epc,            \* position of create_dataset
  user_name,
  count,
  enrollCap,      \* the cv2.VideoCapture handle of create_dataset
  exitReason,     \* how create_dataset ended
  oneFacePerFrame,\* every frame so far held exactly one non-empty face crop
  preDataset,     \* the dataset directory when the run started
  \* FaceLoginApp
  lpc,            \* position of the login session
  recognizer,     \* labels of the loaded model
  id_to_name,     \* set of <<id, name>>
  cap,            \* the cv2.VideoCapture handle of the session
  status_var,     \* the Status label
  pending,        \* number of scheduled update_frame callbacks
  lastRead,       \* last update_frame call: "none", "ok", "fail", "error"
  lastFrame,      \* predictions made by the last update_frame call, per face
  overlays,       \* the text the last update_frame call drew, per face
  failCount       \* consecutive failed reads so far

fsVars == <<dataset, modelFile, mappingFile>>

trainVars == <<tpc, listing, name_to_id, faces, ids, trainResult, preModel,
               preMapping, wroteModel, wroteMapping>>

enrollVars == <<epc, user_name, count, enrollCap, exitReason, oneFacePerFrame,
                preDataset>>

loginVars == <<lpc, recognizer, id_to_name, cap, status_var, pending, lastRead,
               lastFrame, overlays, failCount>>

vars == <<fsVars, trainVars, enrollVars, loginVars>>

\* No script is running.
AllIdle == tpc = "idle" /\ epc = "idle" /\ lpc = "idle"

\* Between runs the operator removes an identity's partition from the dataset
\* directory; the scripts read the directory as they find it.
RemovePartition ==
  /\ AllIdle
  /\ \E name \in Partitions(dataset) :
       dataset' = [dataset EXCEPT !.entries[name] = NoEntry]
  /\ UNCHANGED <<modelFile, mappingFile, trainVars, enrollVars, loginVars>>

(* ------------------------------ train_model ---------------------------- *)

TrainIdle ==
  /\ tpc = "idle"
  /\ listing = <<>>
  /\ name_to_id = {}
  /\ faces = <<>>
  /\ ids = <<>>
  /\ trainResult = "none"
  /\ preModel = AbsentFile
  /\ preMapping = AbsentFile
  /\ wroteModel = FALSE
  /\ wroteMapping = FALSE

\* The locals of train_model are gone when it returns.
TrainReset ==
  /\ tpc' = "idle"
  /\ listing' = <<>>
  /\ name_to_id' = {}
  /\ faces' = <<>>
  /\ ids' = <<>>
  /\ trainResult' = "none"
  /\ preModel' = AbsentFile
  /\ preMapping' = AbsentFile
  /\ wroteModel' = FALSE
  /\ wroteMapping' = FALSE

\* The orders in which os.listdir may return the entries of the directory.
Listings(ds) ==
  LET present == {e \in EntryNames : ds.entries[e].kind # "none"}
      n == Cardinality(present)
  IN {s \in [1..n -> present] : \A i, j \in 1..n : s[i] = s[j] => i = j}

\* name_to_id[name]
IdOf(map, name) == (CHOOSE p \in map : p[1] = name)[2]

\* The valid images of a partition in the order they are read.
RECURSIVE ImageSeq(_)
ImageSeq(S) ==
  IF S = {} THEN <<>>
  ELSE LET f == CHOOSE x \in S : \A y \in S : x.n <= y.n
       IN <<f>> \o ImageSeq(S \ {f})

\* AssignId without "current_id += 1".
AssignIdNoIncrement(acc, dir_name) ==
  [name_to_id |-> acc.name_to_id \cup {<<dir_name, acc.current_id>>},
   user_id |-> acc.current_id,
   current_id |-> acc.current_id]

\* The id given to a directory not seen before, and the next free id.
AssignId(acc, dir_name) ==
  [name_to_id |-> acc.name_to_id \cup {<<dir_name, acc.current_id>>},
   user_id |-> acc.current_id,
   current_id |-> acc.current_id + 1]

\* One iteration of the loop over os.listdir(DATASET_PATH).
ScanEntry(ds, acc, dir_name) ==
  LET e == ds.entries[dir_name]
  IN IF e.kind # "dir" THEN acc
     ELSE LET a == IF \E p \in acc.name_to_id : p[1] = dir_name
                   THEN [name_to_id |-> acc.name_to_id,
                         user_id |-> IdOf(acc.name_to_id, dir_name),
                         current_id |-> acc.current_id]
                   ELSE AssignId(acc, dir_name)
              imgs == ImageSeq(ValidImages(e.files))
          IN [name_to_id |-> a.name_to_id,
              current_id |-> a.current_id,
              faces |-> acc.faces \o
                          [j \in 1..Len(imgs) |-> [dir |-> dir_name, n |-> imgs[j].n]],
              ids |-> acc.ids \o [j \in 1..Len(imgs) |-> a.user_id]]

\* The whole walk through the dataset directory.
RECURSIVE ScanEntries(_, _, _, _)
ScanEntries(ds, order, i, acc) ==
  IF i > Len(order) THEN acc
  ELSE ScanEntries(ds, order, i + 1, ScanEntry(ds, acc, order[i]))

ScanStart == [name_to_id |-> {}, current_id |-> 0, faces |-> <<>>, ids |-> <<>>]

\* train_model without the "if not faces: return" guard.
NeverNoFaces(fs) == FALSE

\* if not faces: return
NoFaces(fs) == fs = <<>>

\* Labels the trained recognizer holds.
Labels(idSeq) == {idSeq[i] : i \in 1..Len(idSeq)}

TrainFinish(res) ==
  /\ tpc' = "done"
  /\ trainResult' = res

\* train_model up to the call of recognizer.train.
TrainEnumerate ==
  /\ AllIdle
  /\ preModel' = modelFile
  /\ preMapping' = mappingFile
  /\ UNCHANGED <<fsVars, enrollVars, loginVars, wroteModel, wroteMapping>>
  /\ IF ~dataset.exists
     THEN /\ TrainFinish("no_dataset")
          /\ UNCHANGED <<listing, name_to_id, faces, ids>>
     ELSE \E order \in Listings(dataset) :
            LET r == ScanEntries(dataset, order, 1, ScanStart)
            IN /\ listing' = order
               /\ name_to_id' = r.name_to_id
               /\ faces' = r.faces
               /\ ids' = r.ids
               /\ IF NoFaces(r.faces)
                  THEN TrainFinish("no_faces")
                  ELSE tpc' = "fit" /\ UNCHANGED trainResult

\* A train_model that opens model.yml for writing before training: a failed
\* training leaves it truncated.
TrainFitFailedAfterOpen ==
  /\ TrainFinish("train_error")
  /\ modelFile' = CorruptFile
  /\ UNCHANGED <<dataset, mappingFile, wroteModel, wroteMapping>>

\* recognizer.train(faces, np.array(ids)) failed: the except clauses report it.
TrainFitFailed ==
  /\ TrainFinish("train_error")
  /\ UNCHANGED <<fsVars, wroteModel, wroteMapping>>

\* recognizer.train(faces, np.array(ids))
TrainFit ==
  /\ tpc = "fit"
  /\ UNCHANGED <<enrollVars, loginVars, listing, name_to_id, faces, ids,
                 preModel, preMapping>>
  /\ \E ok \in BOOLEAN :
       IF ok
       THEN /\ tpc' = "write_model"
            /\ UNCHANGED <<fsVars, trainResult, wroteModel, wroteMapping>>
       ELSE TrainFitFailed

\* recognizer.write(MODEL_PATH): written, or it raises leaving the file as it was
\* or truncated.
TrainWriteModel ==
  /\ tpc = "write_model"
  /\ UNCHANGED <<dataset, mappingFile, enrollVars, loginVars, listing,
                 name_to_id, faces, ids, preModel, preMapping, wroteMapping>>
  /\ \E outcome \in {"written", "raised", "raised_truncated"} :
       IF outcome = "written"
       THEN /\ modelFile' = WrittenFile(Labels(ids))
            /\ wroteModel' = TRUE
            /\ tpc' = "write_mapping"
            /\ UNCHANGED trainResult
       ELSE /\ modelFile' = IF outcome = "raised" THEN modelFile ELSE CorruptFile
            /\ UNCHANGED wroteModel
            /\ TrainFinish("write_model_error")

\* open(MAPPING_PATH, 'w'); json.dump(name_to_id, f): written, or it raises
\* leaving the file as it was or truncated.
TrainWriteMapping ==
  /\ tpc = "write_mapping"
  /\ UNCHANGED <<dataset, modelFile, enrollVars, loginVars, listing,
                 name_to_id, faces, ids, preModel, preMapping, wroteModel>>
  /\ \E outcome \in {"written", "raised", "raised_truncated"} :
       IF outcome = "written"
       THEN /\ mappingFile' = WrittenFile(name_to_id)
            /\ wroteMapping' = TRUE
            /\ TrainFinish("ok")
       ELSE /\ mappingFile' = IF outcome = "raised" THEN mappingFile ELSE CorruptFile
            /\ UNCHANGED wroteMapping
            /\ TrainFinish("write_mapping_error")

\* train_model returns; the script ends.
TrainExit ==
  /\ tpc = "done"
  /\ TrainReset
  /\ UNCHANGED <<fsVars, enrollVars, loginVars>>

(* ------------------------------ create_dataset ------------------------- *)

EnrollIdle ==
  /\ epc = "idle"
  /\ user_name = ""
  /\ count = 0
  /\ enrollCap = "none"
  /\ exitReason = "none"
  /\ oneFacePerFrame = TRUE
  /\ preDataset = NoDataset

\* The locals of create_dataset are gone when it returns.
EnrollReset ==
  /\ epc' = "idle"
  /\ user_name' = ""
  /\ count' = 0
  /\ enrollCap' = "none"
  /\ exitReason' = "none"
  /\ oneFacePerFrame' = TRUE
  /\ preDataset' = NoDataset

\* The partition made anew, emptied if it existed.
MakeDirsFresh(ds, name) ==
  [exists |-> TRUE,
   entries |-> [e \in EntryNames |->
                  IF e = name THEN Directory({}) ELSE ds.entries[e]]]

\* os.makedirs(os.path.join(DATASET_PATH, user_name), exist_ok=True): the
\* dataset directory and the partition are created unless they exist.
MakeDirs(ds, name) ==
  [exists |-> TRUE,
   entries |-> [e \in EntryNames |->
                  IF e = name /\ ds.entries[e].kind # "dir"
                  THEN Directory({})
                  ELSE ds.entries[e]]]

\* The name check that lets every name pass.
EmptyNameNever(name) == FALSE

\* if not user_name
EmptyName(name) == name = ""

\* What the detector returns for a frame: for each face region, whether its crop
\* is non-empty (face_roi.size > 0).
CropSeqs == UNION {[1..n -> BOOLEAN] : n \in 0..MaxFaces}

\* The loop body that writes the crop and does not count it.
StoreCropNoCount(acc, nonEmpty) ==
  IF nonEmpty
  THEN [count |-> acc.count,
        files |-> acc.files \cup {JpgImage(acc.count + 1)}]
  ELSE acc

\* The body of "for (x, y, w, h) in faces" for one region: a non-empty crop is
\* counted and written to image_<count>.jpg.
StoreCrop(acc, nonEmpty) ==
  IF nonEmpty
  THEN [count |-> acc.count + 1,
        files |-> acc.files \cup {JpgImage(acc.count + 1)}]
  ELSE acc

RECURSIVE StoreCrops(_, _, _)
StoreCrops(acc, crops, i) ==
  IF i > Len(crops) THEN acc
  ELSE StoreCrops(StoreCrop(acc, crops[i]), crops, i + 1)

\* while count < IMAGES_TO_CAPTURE
LoopContinues(c) == c < IMAGES_TO_CAPTURE

EnrollFinish(reason) ==
  /\ epc' = "done"
  /\ exitReason' = reason

\* cap.release() after the loop.
EnrollRelease == enrollCap' = "released"

\* create_dataset up to the capture loop.
EnrollStart ==
  /\ AllIdle
  /\ UNCHANGED <<modelFile, mappingFile, trainVars, loginVars, count, oneFacePerFrame>>
  /\ preDataset' = dataset
  /\ \E name \in UserInputs, cascadeLoads \in BOOLEAN, camOpens \in BOOLEAN :
       /\ user_name' = name
       /\ IF EmptyName(name)
          THEN /\ EnrollFinish("empty_name")
               /\ UNCHANGED <<dataset, enrollCap>>
          ELSE /\ dataset' = MakeDirs(dataset, name)
               /\ IF ~cascadeLoads
                  THEN EnrollFinish("cascade_error") /\ UNCHANGED enrollCap
                  ELSE IF ~camOpens
                  THEN EnrollFinish("camera_error") /\ enrollCap' = "unopened"
                  ELSE IF LoopContinues(count)
                  THEN /\ enrollCap' = "open"
                       /\ epc' = "loop"
                       /\ UNCHANGED exitReason
                  ELSE EnrollFinish("target") /\ EnrollRelease

\* What one iteration of the capture loop may meet: a failed cap.read(), a
\* detector call that raises, or a frame with its face crops and the key read
\* by cv2.waitKey.
Captures ==
  {[ret |-> FALSE, detects |-> FALSE, crops |-> <<>>, quit |-> FALSE],
   [ret |-> TRUE, detects |-> FALSE, crops |-> <<>>, quit |-> FALSE]} \cup
  {[ret |-> TRUE, detects |-> TRUE, crops |-> c, quit |-> q] :
     c \in CropSeqs, q \in BOOLEAN}

\* One iteration of the capture loop on what it meets, and the code after the
\* loop when it ends.
EnrollFrameOn(in) ==
  /\ epc = "loop"
  /\ UNCHANGED <<modelFile, mappingFile, trainVars, loginVars, user_name, preDataset>>
  /\ IF ~in.ret
       THEN \* cap.read() failed: break
            /\ EnrollFinish("read_fail")
            /\ EnrollRelease
            /\ UNCHANGED <<dataset, count, oneFacePerFrame>>
       ELSE IF ~in.detects
       THEN \* detectMultiScale raised: the exception leaves create_dataset
            /\ EnrollFinish("error")
            /\ UNCHANGED <<dataset, count, oneFacePerFrame, enrollCap>>
       ELSE LET r == StoreCrops([count |-> count,
                                 files |-> dataset.entries[user_name].files],
                                in.crops, 1)
            IN /\ count' = r.count
               /\ dataset' = [dataset EXCEPT !.entries[user_name].files = r.files]
               /\ oneFacePerFrame' = (oneFacePerFrame /\ in.crops = <<TRUE>>)
               /\ IF in.quit
                  THEN EnrollFinish("cancel") /\ EnrollRelease
                  ELSE IF LoopContinues(r.count)
                  THEN UNCHANGED <<epc, exitReason, enrollCap>>
                  ELSE EnrollFinish("target") /\ EnrollRelease

EnrollFrame == \E in \in Captures : EnrollFrameOn(in)

\* create_dataset returns; the script ends.
EnrollExit ==
  /\ epc = "done"
  /\ EnrollReset
  /\ UNCHANGED <<fsVars, trainVars, loginVars>>

(* ------------------------------ FaceLoginApp --------------------------- *)

NoneName == "<None>"

Status(text, name, color) == [text |-> text, name |-> name, color |-> color]

NoWindow == Status("", "", "")

Scanning == Status("Scanning for face...", "", "black")

LoginFailed == Status("Login Failed", "", "red")

Welcome(name) == Status("Welcome", name, "green")

CameraError == Status("Error: Could not open camera", "", "red")

LoginIdle ==
  /\ lpc = "idle"
  /\ recognizer = {}
  /\ id_to_name = {}
  /\ cap = "none"
  /\ status_var = NoWindow
  /\ pending = 0
  /\ lastRead = "none"
  /\ lastFrame = <<>>
  /\ overlays = <<>>
  /\ failCount = 0

\* The session's objects are gone when the script ends.
LoginReset ==
  /\ lpc' = "idle"
  /\ recognizer' = {}
  /\ id_to_name' = {}
  /\ cap' = "none"
  /\ status_var' = NoWindow
  /\ pending' = 0
  /\ lastRead' = "none"
  /\ lastFrame' = <<>>
  /\ overlays' = <<>>
  /\ failCount' = 0

\* The file check that looks for the model only.
FilesExistModelOnly(mf, mp, cascadeExists) == mf.state # "absent"

\* os.path.exists of the three files (login.py:74 and login.py:185).
FilesExist(mf, mp, cascadeExists) ==
  mf.state # "absent" /\ mp.state # "absent" /\ cascadeExists

\* {v: k for k, v in name_mapping.items()}
ReverseMapping(map) == {<<p[2], p[1]>> : p \in map}

\* load_models: recognizer.read and json.load raise on a truncated file.
LoadModels(mf, mp, cascadeExists) ==
  IF ~FilesExist(mf, mp, cascadeExists)
  THEN [ok |-> FALSE, recognizer |-> {}, id_to_name |-> {}]
  ELSE IF mf.state = "corrupt" \/ mp.state = "corrupt"
  THEN [ok |-> FALSE, recognizer |-> {}, id_to_name |-> {}]
  ELSE [ok |-> TRUE, recognizer |-> mf.content,
        id_to_name |-> ReverseMapping(mp.content)]

\* self.id_to_name.get(id_num, "Unknown")
NameOf(map, id_num) ==
  IF \E p \in map : p[1] = id_num
  THEN (CHOOSE p \in map : p[1] = id_num)[2]
  ELSE "Unknown"

\* The comparison with <= in place of <.
AcceptsAtThreshold(confidence) == confidence <= CONF_THRESHOLD

\* if confidence < CONF_THRESHOLD
Accepts(confidence) == confidence < CONF_THRESHOLD

\* What recognizer.predict may return for one face region.
Predictions(labels) == [id_num : labels, confidence : Scores]

\* The predictions of the faces of one frame, in detection order.
Frames(labels) == UNION {[1..n -> Predictions(labels)] : n \in 0..MaxFaces}

\* The accepted branch of the loop body.
AcceptFace(acc, name) ==
  [logged_in_name |-> name,
   status |-> Welcome(name),
   overlays |-> Append(acc.overlays, [text |-> "Logged In", name |-> name])]

\* The rejected branch without its update of the Status.
RejectFaceKeepsStatus(acc) ==
  [logged_in_name |-> acc.logged_in_name,
   status |-> acc.status,
   overlays |-> Append(acc.overlays, [text |-> "Login Failed", name |-> ""])]

\* The rejected branch of the loop body.
RejectFace(acc) ==
  [logged_in_name |-> acc.logged_in_name,
   status |-> IF acc.logged_in_name = NoneName THEN LoginFailed ELSE acc.status,
   overlays |-> Append(acc.overlays, [text |-> "Login Failed", name |-> ""])]

\* The body of "for (x, y, w, h) in faces" for one region.
ProcessFace(acc, map, pred) ==
  IF Accepts(pred.confidence)
  THEN AcceptFace(acc, NameOf(map, pred.id_num))
  ELSE RejectFace(acc)

RECURSIVE ProcessFaces(_, _, _, _)
ProcessFaces(acc, map, preds, i) ==
  IF i > Len(preds) THEN acc
  ELSE ProcessFaces(ProcessFace(acc, map, preds[i]), map, preds, i + 1)

\* The loop started from the Status the window shows.
FrameStartKeepsStatus ==
  [logged_in_name |-> NoneName, status |-> status_var, overlays |-> <<>>]

\* The state of the loop before the first region.
FrameStart == [logged_in_name |-> NoneName, status |-> Scanning, overlays |-> <<>>]

\* A failed cap.read() that returns without "self.root.after(10, ...)".
ReadFailedNoRetry(st) ==
  [status |-> st, scheduled |-> 0, read |-> "fail", frame |-> <<>>, overlays |-> <<>>]

\* A failed cap.read() that schedules the retry and, falling through to the
\* end of update_frame, the next cycle too.
ReadFailedFallsThrough(st) ==
  [status |-> st, scheduled |-> 2, read |-> "fail", frame |-> <<>>, overlays |-> <<>>]

\* What a failed cap.read() does: nothing but scheduling the retry.
ReadFailed(st) ==
  [status |-> st, scheduled |-> 1, read |-> "fail", frame |-> <<>>, overlays |-> <<>>]

\* An adapter call of update_frame raises (detectMultiScale, predict): the
\* call ends before self.status_var.set and before self.root.after.
FrameRaised(st) ==
  [status |-> st, scheduled |-> 0, read |-> "error", frame |-> <<>>, overlays |-> <<>>]

\* update_frame: what one call does on the input in, given the handle and the
\* Status shown before the call.
UpdateFrameCall(capNow, st, map, in) ==
  IF capNow # "open"
  THEN [status |-> st, scheduled |-> 0, read |-> "none", frame |-> <<>>,
        overlays |-> <<>>]
  ELSE IF ~in.ret
  THEN ReadFailed(st)
  ELSE IF in.raises
  THEN FrameRaised(st)
  ELSE LET r == ProcessFaces(FrameStart, map, in.preds, 1)
       IN [status |-> r.status, scheduled |-> 1, read |-> "ok", frame |-> in.preds,
           overlays |-> r.overlays]

\* The login variables after a call of update_frame.
AfterUpdateFrame(r, alreadyPending) ==
  /\ status_var' = r.status
  /\ pending' = alreadyPending + r.scheduled
  /\ lastRead' = r.read
  /\ lastFrame' = r.frame
  /\ overlays' = r.overlays
  /\ failCount' = IF r.read = "fail" THEN failCount + 1
                  ELSE IF r.read = "ok" THEN 0 ELSE failCount

\* cap.read() fails.
NoFrame == [ret |-> FALSE, raises |-> FALSE, preds |-> <<>>]

\* What cap.read() and the adapters may return to one update_frame call:
\* a failed read, a frame on which an adapter raises, or a frame with the
\* predictions of its faces.
Reads(labels) ==
  {NoFrame, [ret |-> TRUE, raises |-> TRUE, preds |-> <<>>]} \cup
  {[ret |-> TRUE, raises |-> FALSE, preds |-> f] : f \in Frames(labels)}

\* The script's file check, FaceLoginApp.__init__ and the calls it makes.
LoginStart ==
  /\ AllIdle
  /\ UNCHANGED <<fsVars, trainVars, enrollVars>>
  /\ \E cascadeExists \in BOOLEAN, camOpens \in BOOLEAN :
       LET m == LoadModels(modelFile, mappingFile, cascadeExists)
       IN IF ~FilesExist(modelFile, mappingFile, cascadeExists)
          THEN \* the script prints the missing files and ends
               /\ lpc' = "refused"
               /\ UNCHANGED <<recognizer, id_to_name, cap, status_var, pending,
                              lastRead, lastFrame, overlays, failCount>>
          ELSE IF ~m.ok
          THEN \* show_error_and_exit: destroy scheduled
               /\ lpc' = "error_wait"
               /\ UNCHANGED <<recognizer, id_to_name, cap, status_var, pending,
                              lastRead, lastFrame, overlays, failCount>>
          ELSE /\ recognizer' = m.recognizer
               /\ id_to_name' = m.id_to_name
               /\ cap' = IF camOpens THEN "open" ELSE "unopened"
               /\ \E in \in (IF camOpens THEN Reads(m.recognizer) ELSE {NoFrame}) :
                    LET r == UpdateFrameCall(cap',
                                             IF camOpens THEN Scanning ELSE CameraError,
                                             m.id_to_name, in)
                    IN /\ AfterUpdateFrame(r, 0)
                       \* an exception of the first call leaves __init__ and
                       \* ends the script before root.mainloop()
                       /\ lpc' = IF r.read = "error" THEN "crashed" ELSE "running"

\* A scheduled update_frame callback runs; Tk reports an exception of the
\* callback and its main loop goes on.
UpdateFrame ==
  /\ lpc = "running"
  /\ pending > 0
  /\ UNCHANGED <<fsVars, trainVars, enrollVars, lpc, recognizer, id_to_name, cap>>
  /\ \E in \in Reads(recognizer) :
       /\ ~in.ret => failCount < MaxFails
       /\ AfterUpdateFrame(UpdateFrameCall(cap, status_var, id_to_name, in),
                           pending - 1)

\* on_closing: release the camera and destroy the window; the pending callbacks
\* die with the window.
OnClosing ==
  /\ lpc = "running"
  /\ lpc' = "destroyed"
  /\ cap' = IF cap = "open" THEN "released" ELSE cap
  /\ pending' = 0
  /\ UNCHANGED <<fsVars, trainVars, enrollVars, recognizer, id_to_name, status_var,
                 lastRead, lastFrame, overlays, failCount>>

\* self.root.after(5000, self.root.destroy) of show_error_and_exit fires.
ErrorDestroy ==
  /\ lpc = "error_wait"
  /\ lpc' = "destroyed"
  /\ UNCHANGED <<fsVars, trainVars, enrollVars, recognizer, id_to_name, cap,
                 status_var, pending, lastRead, lastFrame, overlays, failCount>>

\* root.mainloop() returns, or the script ended without reaching it.
LoginExit ==
  /\ lpc \in {"destroyed", "refused", "crashed"}
  /\ LoginReset
  /\ UNCHANGED <<fsVars, trainVars, enrollVars>>

(* ------------------------------ specifications ------------------------- *)

\* Enrollment and training over a Sample Store found in any of InitialDatasets.
Init ==
  /\ dataset \in InitialDatasets
  /\ modelFile = AbsentFile
  /\ mappingFile = AbsentFile
  /\ TrainIdle
  /\ EnrollIdle
  /\ LoginIdle

Next ==
  \/ EnrollStart
  \/ EnrollFrame
  \/ EnrollExit
  \/ TrainEnumerate
  \/ TrainFit
  \/ TrainWriteModel
  \/ TrainWriteMapping
  \/ TrainExit
  \/ RemovePartition

Spec == Init /\ [][Next]_vars

\* Pairs of artifacts that runs of train_model leave behind (each is a pair
\* Spec reaches between runs): nothing trained yet; a model without a mapping;
\* a truncated model or mapping; a model and the mapping of the same run, for
\* one identity and for two; a mapping with an identity that had no samples;
\* and a model of two identities beside the mapping of an earlier run.
LoginArtifacts ==
  {<<AbsentFile, AbsentFile>>,
   <<WrittenFile({0}), AbsentFile>>,
   <<CorruptFile, WrittenFile({<<"alice", 0>>})>>,
   <<WrittenFile({0}), CorruptFile>>,
   <<WrittenFile({0}), WrittenFile({<<"alice", 0>>})>>,
   <<WrittenFile({0, 1}), WrittenFile({<<"alice", 0>>, <<"bob", 1>>})>>,
   <<WrittenFile({0}), WrittenFile({<<"alice", 0>>, <<"bob", 1>>})>>,
   <<WrittenFile({0, 1}), WrittenFile({<<"alice", 0>>})>>}

\* A recognition session over artifacts left behind by training.
InitLogin ==
  /\ dataset = NoDataset
  /\ \E p \in LoginArtifacts : modelFile = p[1] /\ mappingFile = p[2]
  /\ TrainIdle
  /\ EnrollIdle
  /\ LoginIdle

NextLogin ==
  \/ LoginStart
  \/ UpdateFrame
  \/ OnClosing
  \/ ErrorDestroy
  \/ LoginExit

SpecLogin == InitLogin /\ [][NextLogin]_vars

\* The frames of Captures that are read, hold at least one face with a
\* non-empty crop, and come without the 'q' key.
FaceFrames ==
  {in \in Captures :
     in.ret /\ in.detects /\ ~in.quit /\ \E i \in 1..Len(in.crops) : in.crops[i]}

\* An iteration of the capture loop on such a frame.
EnrollFaceFrame == \E in \in FaceFrames : EnrollFrameOn(in)

NextEnroll ==
  \/ EnrollStart
  \/ EnrollFrame
  \/ EnrollExit

\* Enrollment alone, in front of a camera that keeps delivering frames with a
\* face: while the capture loop runs, an iteration on such a frame is taken
\* eventually (the loop body runs as soon as cap.read() returns).
SpecEnroll == Init /\ [][NextEnroll]_vars /\ WF_vars(EnrollFaceFrame)

(* ------------------------------ properties ----------------------------- *)

\* The faces of a frame whose score is below the threshold.
AcceptedFaces(frame) ==
  {i \in 1..Len(frame) : frame[i].confidence < CONF_THRESHOLD}

FirstOf(S) == CHOOSE i \in S : \A j \in S : i <= j

LastOf(S) == CHOOSE i \in S : \A j \in S : j <= i

\* An update_frame call has read and processed a frame.
FrameProcessed == lpc \in {"running", "destroyed"} /\ lastRead = "ok"

\* The loaded registry names every label of the loaded model.
RegistryCoversModel == \A l \in recognizer : NameOf(id_to_name, l) # "Unknown"

\* C1: when a processed frame has an accepted face, the Status is the welcome
\* message for the identity of the FIRST accepted face, whatever follows it
\* (read over sessions whose registry names every label, so that each accepted
\* face has an identity).
C1_FirstAcceptanceWins ==
  (FrameProcessed /\ RegistryCoversModel /\ AcceptedFaces(lastFrame) # {}) =>
    status_var =
      Welcome(NameOf(id_to_name, lastFrame[FirstOf(AcceptedFaces(lastFrame))].id_num))

\* C2: a face is accepted (drawn "Logged In") if and only if its score is
\* strictly below CONF_THRESHOLD; a score equal to the threshold is rejected.
C2_AcceptIffBelowThreshold ==
  FrameProcessed =>
    /\ Len(overlays) = Len(lastFrame)
    /\ \A i \in 1..Len(lastFrame) :
         /\ overlays[i].text = "Logged In" <=> lastFrame[i].confidence < CONF_THRESHOLD
         /\ overlays[i].text = "Login Failed" <=> lastFrame[i].confidence >= CONF_THRESHOLD

\* A processed frame with a face exactly at the threshold, rejected, beside an
\* accepted face just below it.
C2_Witness ==
  /\ FrameProcessed
  /\ \E i, j \in 1..Len(lastFrame) :
       /\ lastFrame[i].confidence = CONF_THRESHOLD
       /\ overlays[i].text = "Login Failed"
       /\ lastFrame[j].confidence = CONF_THRESHOLD - 1
       /\ overlays[j].text = "Logged In"

\* C3: a processed frame with no accepted face shows "Login Failed" when it has
\* at least one face and "Scanning for face..." when it has none.
C3_NoAcceptanceStatus ==
  (FrameProcessed /\ AcceptedFaces(lastFrame) = {}) =>
    status_var = IF Len(lastFrame) > 0 THEN LoginFailed ELSE Scanning

\* A processed frame with two faces, both rejected, showing "Login Failed".
C3_Witness ==
  /\ FrameProcessed
  /\ Len(lastFrame) = 2
  /\ AcceptedFaces(lastFrame) = {}
  /\ status_var = LoginFailed

\* C4: when train_model has ended, it has written both artifacts or neither.
C4_AllOrNothing == tpc = "done" => (wroteModel <=> wroteMapping)

\* C5: whenever both artifacts exist and load, every label the loaded model can
\* predict has an entry in the loaded reverse registry (never "Unknown").
C5_ModelLabelsRegistered ==
  AllIdle =>
    LET m == LoadModels(modelFile, mappingFile, TRUE)
    IN m.ok => \A l \in m.recognizer : NameOf(m.id_to_name, l) # "Unknown"

\* The dataset directory is absent or holds no image train_model can load.
NoUsableData(ds) ==
  ~ds.exists \/ \A e \in EntryNames : ValidImages(ds.entries[e].files) = {}

\* C6: a train_model run over no usable data (no dataset directory, or no valid
\* sample) has aborted with both artifacts exactly as they were before the call.
C6_NoDataWritesNothing ==
  (tpc # "idle" /\ NoUsableData(dataset)) =>
    /\ tpc = "done"
    /\ trainResult \in {"no_dataset", "no_faces"}
    /\ modelFile = preModel
    /\ mappingFile = preMapping
    /\ ~wroteModel /\ ~wroteMapping

\* A run that found an entry in the dataset directory but no sample, with both
\* artifacts of an earlier training still in place.
C6_Witness ==
  /\ tpc = "done"
  /\ trainResult = "no_faces"
  /\ Len(listing) > 0
  /\ preModel.state = "ok" /\ preMapping.state = "ok"
  /\ modelFile = preModel /\ mappingFile = preMapping

\* C7: when the classifier's train operation fails, train_model has aborted and
\* both persisted artifacts are as they were before the call.
C7_AdapterFailureWritesNothing ==
  (tpc = "done" /\ trainResult = "train_error") =>
    /\ modelFile = preModel
    /\ mappingFile = preMapping
    /\ ~wroteModel /\ ~wroteMapping

\* A failed training with both artifacts of an earlier training in place.
C7_Witness ==
  /\ tpc = "done"
  /\ trainResult = "train_error"
  /\ preModel.state = "ok" /\ preMapping.state = "ok"
  /\ modelFile = preModel /\ mappingFile = preMapping

\* train_model has walked the dataset directory.
Enumerated == tpc # "idle" /\ trainResult # "no_dataset"

\* C8: the registry train_model builds maps the partitions present one-to-one
\* onto 0..n-1 in discovery order, gives non-directories no label, and every
\* sample carries the label of the partition it was read from.
C8_DenseBijection ==
  Enumerated =>
    /\ {p[1] : p \in name_to_id} = Partitions(dataset)
    /\ \A p, q \in name_to_id : (p[1] = q[1] \/ p[2] = q[2]) => p = q
    /\ {p[2] : p \in name_to_id} = 0..(Cardinality(Partitions(dataset)) - 1)
    /\ \A i, j \in 1..Len(listing) :
         (i < j /\ listing[i] \in Partitions(dataset) /\ listing[j] \in Partitions(dataset))
           => IdOf(name_to_id, listing[i]) < IdOf(name_to_id, listing[j])
    /\ Len(ids) = Len(faces)
    /\ \A k \in 1..Len(faces) :
         /\ faces[k].dir \in Partitions(dataset)
         /\ ids[k] = IdOf(name_to_id, faces[k].dir)
         /\ JpgImage(faces[k].n) \in ValidImages(dataset.entries[faces[k].dir].files)

\* A walk that met a plain file first, then bob, then alice, with samples of both.
C8_Witness ==
  /\ tpc = "fit"
  /\ listing = <<PlainEntry, "bob", "alice">>
  /\ name_to_id = {<<"bob", 0>>, <<"alice", 1>>}
  /\ \E k \in 1..Len(ids) : ids[k] = 0
  /\ \E k \in 1..Len(ids) : ids[k] = 1

\* C9: an enrollment that was fed frames with exactly one non-empty face each,
\* until it reached the target without being cancelled, leaves the identity's
\* partition (and creates no other) with exactly IMAGES_TO_CAPTURE samples.
C9_EnrollReachesTarget ==
  (epc = "done" /\ exitReason = "target" /\ oneFacePerFrame) =>
    /\ Partitions(dataset) = Partitions(preDataset) \cup {user_name}
    /\ SampleCount(dataset, user_name) = IMAGES_TO_CAPTURE

\* The Status the code publishes for a frame: the welcome of the last accepted
\* face, else "Login Failed" if it has faces, else "Scanning for face...".
PublishedStatus(frame, map) ==
  IF AcceptedFaces(frame) # {}
  THEN Welcome(NameOf(map, frame[LastOf(AcceptedFaces(frame))].id_num))
  ELSE IF Len(frame) > 0 THEN LoginFailed ELSE Scanning

\* C10: an update_frame call whose read fails predicts and draws nothing, leaves
\* the Status as it was, leaves exactly one retry scheduled and the session
\* running with its camera; and the first successful read after failed ones is
\* processed as any frame is.
C10_ReadFailureTolerated ==
  [][/\ (failCount' = failCount + 1) =>
          /\ lpc' = "running"
          /\ cap' = "open"
          /\ pending' = 1
          /\ lastFrame' = <<>>
          /\ overlays' = <<>>
          /\ status_var' = (IF lpc = "idle" THEN Scanning ELSE status_var)
     /\ (failCount > 0 /\ lastRead' = "ok") =>
          /\ lpc' = "running"
          /\ pending' = 1
          /\ failCount' = 0
          /\ Len(overlays') = Len(lastFrame')
          /\ status_var' = PublishedStatus(lastFrame', id_to_name)]_vars

\* Two reads in a row have failed: the session still runs, one retry is
\* scheduled and the Status of the frame before them is still shown.
C10_Witness ==
  /\ lpc = "running"
  /\ lastRead = "fail"
  /\ failCount >= 2
  /\ pending = 1
  /\ status_var.text = "Welcome"

\* C11: in every terminal state of create_dataset (target reached, cancel,
\* failed read, an error raised while a frame is processed) and of the login
\* session (window destroyed, load failure, an error in a frame cycle), a
\* camera handle that was opened has been released.
C11_HandleReleasedOnExit ==
  /\ (epc = "done") => (enrollCap # "open")
  /\ (lpc \in {"destroyed", "refused", "crashed"}) => (cap # "open")

\* A file the session needs is missing or cannot be loaded.
ArtifactUnavailable == modelFile.state # "ok" \/ mappingFile.state # "ok"

\* No update_frame call of the session has read a frame or published a Status.
NoFrameCycle ==
  /\ pending = 0
  /\ lastRead = "none"
  /\ lastFrame = <<>>
  /\ overlays = <<>>

\* C12: a session that found a file missing, or whose loading raised, never
\* opens the camera, never starts the frame loop and publishes no Status; a
\* session whose camera did not open processes no frame, schedules no cycle
\* and shows the camera error for the rest of the session.
C12_UnavailableResourceIsFatal ==
  /\ (lpc \in {"refused", "error_wait"}) =>
       (cap = "none" /\ NoFrameCycle /\ status_var = NoWindow)
  /\ (lpc # "idle" /\ ArtifactUnavailable) =>
       /\ lpc \in {"refused", "error_wait", "destroyed"}
       /\ cap = "none"
       /\ NoFrameCycle
       /\ status_var = NoWindow
  /\ (cap = "unopened") => (NoFrameCycle /\ status_var = CameraError)

\* The window of a session whose loading raised on a truncated mapping has
\* been destroyed by the timer of show_error_and_exit.
C12_Witness ==
  /\ lpc = "destroyed"
  /\ mappingFile.state = "corrupt"
  /\ cap = "none"
  /\ pending = 0

\* C13: create_dataset called with an empty name ends at once: it creates no
\* partition, writes no sample, opens no camera and leaves the dataset
\* directory as it found it.
C13_EmptyNameRejected ==
  (epc # "idle" /\ user_name = "") =>
    /\ epc = "done"
    /\ exitReason = "empty_name"
    /\ dataset = preDataset
    /\ enrollCap = "none"
    /\ count = 0

\* An empty name was rejected on a Sample Store that holds a partition.
C13_Witness ==
  /\ epc = "done"
  /\ user_name = ""
  /\ exitReason = "empty_name"
  /\ Partitions(dataset) # {}

\* C14: an enroll call adds every non-empty crop as one more sample and
\* touches no sample stored before: the identity's sample count is its count
\* before the call plus the number of crops the call stored.
C14_SamplesOnlyAdded ==
  (epc # "idle" /\ user_name # "") =>
    SampleCount(dataset, user_name) = SampleCount(preDataset, user_name) + count

\* C15: the running count of stored samples never exceeds IMAGES_TO_CAPTURE,
\* whatever the frames hold (several faces in one frame included).
C15_CountNeverExceedsTarget == count <= IMAGES_TO_CAPTURE

\* C16 as stated: an enroll call that ends without having stored a sample
\* created no partition and left the dataset directory as it found it.
C16_NoSampleNoPartition ==
  (epc = "done" /\ count = 0) => (dataset = preDataset)

\* C16, amended: the partition is created when the call starts. As long as a
\* call for a non-empty name has stored no sample, the dataset directory
\* exists, the identity's partition exists with the files it had before the
\* call (none if it is new), and no other entry has changed.
C16_PartitionCreatedAtStart ==
  (epc # "idle" /\ user_name # "" /\ count = 0) =>
    /\ dataset.exists
    /\ dataset.entries[user_name].kind = "dir"
    /\ dataset.entries[user_name].files = preDataset.entries[user_name].files
    /\ \A e \in EntryNames \ {user_name} :
         dataset.entries[e] = preDataset.entries[e]

\* The camera did not open for a new identity: the call has ended without a
\* sample and the identity's empty partition is in the dataset directory.
C16_Witness ==
  /\ epc = "done"
  /\ exitReason = "camera_error"
  /\ count = 0
  /\ preDataset.entries[user_name].kind = "none"
  /\ dataset.entries[user_name] = Directory({})

\* C17: at most one update_frame call is pending at any time, and none outside
\* a running session; a call reads at most one frame; and a Status published
\* for a frame was published after every region of the frame had been
\* classified and drawn.
C17_SingleFramePath ==
  /\ pending \in {0, 1}
  /\ (lpc # "running") => (pending = 0)
  /\ (lastRead # "ok") => (lastFrame = <<>> /\ overlays = <<>>)
  /\ FrameProcessed =>
       /\ Len(overlays) = Len(lastFrame)
       /\ \A i \in 1..Len(lastFrame) :
            (overlays[i].text = "Logged In") <=> Accepts(lastFrame[i].confidence)

\* A frame with several faces has been processed in a running session and the
\* next cycle is scheduled.
C17_Witness ==
  /\ lpc = "running"
  /\ pending = 1
  /\ lastRead = "ok"
  /\ Len(lastFrame) >= 2
  /\ Len(overlays) = Len(lastFrame)

\* C18: the Status shown after a frame has been processed is a function of
\* that frame's predictions alone (with the registry the session loaded): it
\* is the same whatever the frames, failed reads and Statuses before it, so
\* two sessions that process the same frame publish the same Status.
C18_StatusFunctionOfFrame ==
  FrameProcessed => (status_var = PublishedStatus(lastFrame, id_to_name))

\* A frame without faces has been processed by a callback of a running
\* session, after the frames before it: the Status shows the scan text.
C18_Witness ==
  /\ lpc = "running"
  /\ lastRead = "ok"
  /\ lastFrame = <<>>
  /\ status_var = Scanning
  /\ pending = 1

\* C19: in front of a camera that keeps delivering frames with a non-empty
\* face, a capture loop that has started ends; an iteration that met a failed
\* read or the 'q' key is the last one; and after the end of the loop no frame
\* is read and nothing is stored, the call only returns.
C19_EnrollTerminates ==
  /\ (epc = "loop") ~> (epc = "done")
  /\ [][(epc = "loop" /\ exitReason' \in {"cancel", "read_fail"}) =>
          (epc' = "done" /\ enrollCap' = "released")]_vars
  /\ [][(epc = "done") =>
          (epc' = "idle" /\ dataset' = dataset /\ enrollCap' = "none")]_vars

\* The capture loop has ended on the target after frames with a face.
C19_Witness ==
  /\ epc = "done"
  /\ exitReason = "target"
  /\ count >= IMAGES_TO_CAPTURE
  /\ enrollCap = "released"

====
